---- MODULE Spec2Model ----
(***************************************************************************)
(* Bollinger Bands calculator (src/backend/bollinger_bands.py): rolling    *)
(* statistics, band derivation, signal classification, pattern analysis,   *)
(* persistence of the computed rows, and the batch loop over pairs.        *)
(*                                                                         *)
(* Numbers.  A DataFrame cell is a float64, and so it is here: a finite    *)
(* cell is sign * mantissa * 2^exponent with a mantissa of at most 53      *)
(* bits, NaN, +inf and -inf are values of their own, and every arithmetic  *)
(* operation rounds its exact result to the nearest float, ties to even.   *)
(* The rolling mean, variance and quantile and the mean of a column are    *)
(* computed step by step as the kernels of pandas and numpy compute them.  *)
(***************************************************************************)
EXTENDS Integers, Sequences, FiniteSets, TLC

Abs(x) == IF x < 0 THEN 0 - x ELSE x
Max(x, y) == IF x >= y THEN x ELSE y
Min(x, y) == IF x <= y THEN x ELSE y

\* ------------------------------------------------------------ naturals of any size
\* A natural number is the sequence of its digits in base 2^15, lowest first,
\* without a leading zero digit; 0 is the empty sequence.
LimbBits == 15
Base == 2^LimbBits

Limb(a, i) == IF i >= 1 /\ i <= Len(a) THEN a[i] ELSE 0

\* the place of the highest non-zero digit, 0 when there is none
TopDigit(a) ==
    IF \A i \in 1..Len(a) : a[i] = 0 THEN 0
    ELSE CHOOSE i \in 1..Len(a) : a[i] # 0 /\ \A k \in (i + 1)..Len(a) : a[k] = 0

Trimmed(a) == IF Len(a) = 0 \/ a[Len(a)] # 0 THEN a ELSE SubSeq(a, 1, TopDigit(a))
BTrim(a) == Trimmed(a \o << >>)

\* an integer 0 <= n < 2^31
BNat(n) == BTrim([i \in 1..3 |-> (n \div Base^(i - 1)) % Base])

\* sign of a - b
BCmp(a, b) ==
    IF Len(a) > Len(b) THEN 1
    ELSE IF Len(a) < Len(b) THEN 0 - 1
    ELSE IF a = b THEN 0
    ELSE IF \E i \in 1..Len(a) : a[i] > b[i] /\ \A k \in (i + 1)..Len(a) : a[k] = b[k] THEN 1
    ELSE 0 - 1

\* a carry enters digit i of a + b: a lower digit makes one and every digit
\* between passes it on
Carry(a, b, i) ==
    \E j \in 1..(i - 1) :
        /\ Limb(a, j) + Limb(b, j) >= Base
        /\ \A k \in (j + 1)..(i - 1) : Limb(a, k) + Limb(b, k) = Base - 1

BAddDigit(a, b, i) == (Limb(a, i) + Limb(b, i) + (IF Carry(a, b, i) THEN 1 ELSE 0)) % Base

BAdd(a, b) == BTrim([i \in 1..(Max(Len(a), Len(b)) + 1) |-> BAddDigit(a, b, i)])

\* digit i of a - b borrows from the next
Borrow(a, b, i) ==
    \E j \in 1..(i - 1) :
        /\ Limb(a, j) < Limb(b, j)
        /\ \A k \in (j + 1)..(i - 1) : Limb(a, k) = Limb(b, k)

BSubDigit(a, b, i) ==
    (a[i] - Limb(b, i) - (IF Borrow(a, b, i) THEN 1 ELSE 0) + Base) % Base

\* a - b for a >= b
BSub(a, b) == BTrim([i \in 1..Len(a) |-> BSubDigit(a, b, i)])

\* the natural whose digit i is w[i] % Base plus what w[i - 1] carries over,
\* for any w[i] >= 0
BNorm(w) ==
    BAdd([i \in 1..Len(w) |-> w[i] % Base], [i \in 1..(Len(w) + 1) |-> Limb(w, i - 1) \div Base])

\* a * d for one digit d
BMulSmall(a, d) == BNorm([i \in 1..Len(a) |-> a[i] * d])

\* what the digit j of b adds to the place k of a * b, before carries
MulAt(a, b, k, j) ==
    ((Limb(a, k - j + 1) * Limb(b, j)) % Base) + ((Limb(a, k - j) * Limb(b, j)) \div Base)
MulAt4(a, b, k, j) ==
    MulAt(a, b, k, j + 1) + MulAt(a, b, k, j + 2) + MulAt(a, b, k, j + 3) + MulAt(a, b, k, j + 4)

\* a * the digits j+1..j+4 of b, in their places
BMulPart(a, b, j) == BNorm([k \in 1..(Len(a) + j + 4) |-> MulAt4(a, b, k, j)] \o << >>)

\* a * the digits above j of b, in their places
RECURSIVE BMulFrom(_, _, _)
BMulFrom(a, b, j) ==
    IF j + 4 >= Len(b) THEN BMulPart(a, b, j)
    ELSE BAdd(BMulPart(a, b, j), BMulFrom(a, b, j + 4))

BMul(a, b) == IF Len(a) = 0 \/ Len(b) = 0 THEN << >> ELSE BMulFrom(a, b, 0)

\* a * 2^(LimbBits * q + r), r < LimbBits
BShlBy(a, q, r) ==
    BTrim([i \in 1..(Len(a) + q + 1) |->
              ((Limb(a, i - q) * 2^r) % Base) + ((Limb(a, i - q - 1) * 2^r) \div Base)])

\* a * 2^n
BShl(a, n) == IF Len(a) = 0 \/ n = 0 THEN a ELSE BShlBy(a, n \div LimbBits, n % LimbBits)

\* a div 2^(LimbBits * q + r), r < LimbBits
BShrBy(a, q, r) ==
    BTrim([i \in 1..(Len(a) - q) |->
              (Limb(a, i + q) \div 2^r) + (Limb(a, i + q + 1) % 2^r) * 2^(LimbBits - r)])

\* a div 2^n
BShr(a, n) == BShrBy(a, n \div LimbBits, n % LimbBits)

\* the number of bits of 0 <= n < 2^31
IntBitLen(n) == Cardinality({k \in 0..30 : 2^k <= n})

\* the number of bits of a
BBitLen(a) ==
    IF Len(a) = 0 THEN 0 ELSE LimbBits * (Len(a) - 1) + IntBitLen(a[Len(a)])

\* bit i of a, bit 0 the lowest
BBit(a, i) == (Limb(a, i \div LimbBits + 1) \div 2^(i % LimbBits)) % 2

\* some bit of a under bit i is set
BLowNonZero(a, i) ==
    \/ \E j \in 1..Min(i \div LimbBits, Len(a)) : a[j] # 0
    \/ Limb(a, i \div LimbBits + 1) % 2^(i % LimbBits) # 0

\* the number of zero bits n > 0 ends with
IntTrailingZeros(n) == Cardinality({k \in 1..30 : n % 2^k = 0})

\* the number of zero bits a > 0 ends with
LowDigit(a) == CHOOSE i \in 1..Len(a) : a[i] # 0 /\ \A k \in 1..(i - 1) : a[k] = 0
TrailingZerosAt(a, i) == LimbBits * (i - 1) + IntTrailingZeros(a[i])
BTrailingZeros(a) == TrailingZerosAt(a, LowDigit(a))

\* long division.  The largest digit d with b * d <= cur and the remainder
\* cur - b * d, searched downward from q with p = b * q: the two leading
\* digits of cur over the leading digit of b, at least Base/2, give d or up
\* to 2 more
QEstimate(cur, b) ==
    Min(Base - 1, (Limb(cur, Len(b) + 1) * Base + Limb(cur, Len(b))) \div b[Len(b)])
RECURSIVE DivTry(_, _, _, _)
DivTry(cur, b, q, p) ==
    IF BCmp(p, cur) <= 0 THEN [d |-> q, r |-> BSub(cur, p)]
    ELSE DivTry(cur, b, q - 1, BSub(p, b))
DivDigit(cur, b, q) == DivTry(cur, b, q, BMulSmall(b, q))

\* one more digit of a quotient: the remainder so far is st.r, the digits
\* found so far are st.q, lowest first
DivPut(dr, q) == [q |-> <<dr.d>> \o q, r |-> dr.r]
DivNext(cur, b, q) == DivPut(DivDigit(cur, b, QEstimate(cur, b)), q)
DivStep(d, b, st) == DivNext(BTrim(<<d>> \o st.r), b, st.q)

\* the division of a by b carried on from st to n digits of quotient
RECURSIVE BDivModFrom(_, _, _, _)
BDivModFrom(a, b, n, st) ==
    IF Len(st.q) = n THEN [q |-> BTrim(st.q), r |-> st.r]
    ELSE BDivModFrom(a, b, n, DivStep(a[n - Len(st.q)], b, st))

BDivModScaled(a, b) ==
    IF Len(a) < Len(b) THEN [q |-> << >>, r |-> a]
    ELSE BDivModFrom(a, b, Len(a) - Len(b) + 1,
                     [q |-> << >>, r |-> BTrim(SubSeq(a, Len(a) - Len(b) + 2, Len(a)))])

\* quotient of a by b > 0, and the remainder times a power of 2: both are
\* scaled first so that the leading digit of the divisor is at least Base/2
BDivMod(a, b) ==
    BDivModScaled(BShl(a, LimbBits - IntBitLen(b[Len(b)])),
                  BShl(b, LimbBits - IntBitLen(b[Len(b)])))

\* floor of the square root of 0 < n < 2^30, by Newton's iteration downward from x
RECURSIVE IntSqrtFrom(_, _)
IntSqrtNext(n, x, y) == IF y >= x THEN x ELSE IntSqrtFrom(n, y)
IntSqrtFrom(n, x) == IntSqrtNext(n, x, (x + n \div x) \div 2)
IntSqrt(n) == IntSqrtFrom(n, 2^((IntBitLen(n) + 1) \div 2))

\* a natural of at most two digits as an integer
LeadInt(a) == Limb(a, 2) * Base + Limb(a, 1)

\* a number not under the floor of the square root of n > 0 and close to it:
\* one step of Newton's iteration from x, which is the root of the leading
\* half of n, made one larger and put in its place
RECURSIVE BSqrtUpper(_)
NewtonStep(n, x) ==
    IF Len(x) = 0 THEN x ELSE BShr(BAdd(x, BDivMod(n, x).q), 1)
BSqrtSeed(u, h) == IF Len(u) = 0 THEN BShl(<<1>>, h) ELSE BShl(BAdd(u, <<1>>), h)
BSqrtUpper(n) ==
    IF BBitLen(n) <= 2 * LimbBits THEN BNat(IntSqrt(LeadInt(n)))
    ELSE NewtonStep(n, BSqrtSeed(BSqrtUpper(BShr(n, 2 * (BBitLen(n) \div 4))),
                                 BBitLen(n) \div 4))

\* floor of the square root of n > 0 and whether n is its square, searched
\* downward from x with sq = x * x
RECURSIVE BSqrtDown(_, _, _)
BSqrtPrev(n, x) ==
    IF Len(x) = 0 THEN [root |-> x, exact |-> FALSE] ELSE BSqrtDown(n, x, BMul(x, x))
BSqrtDown(n, x, sq) ==
    IF BCmp(sq, n) <= 0 THEN [root |-> x, exact |-> sq = n]
    ELSE BSqrtPrev(n, BSub(x, <<1>>))
BSqrt(n) == BSqrtPrev(n, BSqrtUpper(n))

\* ------------------------------------------------------------ floats
\* A float64 cell: NaN, +inf, -inf, or the finite value s * m * 2^e with sign
\* s (1 or -1), m odd of at most 53 bits and e >= -1074; a zero has m = 0,
\* e = 0 and keeps its sign.  Every operation rounds its exact result to the
\* nearest such value, ties to the even mantissa.
MantBits == 53
MinExp == 0 - 1074
MaxExp == 1024

Num(s, m, e) == [t |-> "num", s |-> s, m |-> m, e |-> e]
NaN == [t |-> "nan", s |-> 1, m |-> << >>, e |-> 0]
PInf == [t |-> "pinf", s |-> 1, m |-> << >>, e |-> 0]
NInf == [t |-> "ninf", s |-> 0 - 1, m |-> << >>, e |-> 0]
Zero(s) == Num(s, << >>, 0)

IsNaN(x) == x.t = "nan"
IsInf(x) == x.t \in {"pinf", "ninf"}
IsFinite(x) == x.t = "num"
IsZero(x) == x.t = "num" /\ Len(x.m) = 0

FInfOf(s) == IF s < 0 THEN NInf ELSE PInf

\* the value s * n * 2^e, n of at most 53 bits: trailing zero bits go to the
\* exponent, a value from 2^1024 on is an infinity
Canon(s, n, e) ==
    IF Len(n) = 0 THEN Zero(s)
    ELSE IF BBitLen(n) + e > MaxExp THEN FInfOf(s)
    ELSE Num(s, BShr(n, BTrailingZeros(n)), e + BTrailingZeros(n))

\* dropping the low bits of n rounds up: the first dropped bit is set and a
\* lower one is, or the kept part is odd
RoundsUp(n, drop) ==
    BBit(n, drop - 1) = 1 /\ (BLowNonZero(n, drop - 1) \/ BBit(n, drop) = 1)

Rounded(s, n, e, drop) ==
    IF drop <= 0 THEN Canon(s, n, e)
    ELSE IF RoundsUp(n, drop) THEN Canon(s, BAdd(BShr(n, drop), <<1>>), e + drop)
    ELSE Canon(s, BShr(n, drop), e + drop)

\* the float nearest s * n * 2^e, n > 0
Round(s, n, e) == Rounded(s, n, e, Max(BBitLen(n) - MantBits, MinExp - e))

FInt(n) == Canon(IF n < 0 THEN 0 - 1 ELSE 1, BNat(Abs(n)), 0)

\* -1, 0 or 1 for a float that is not NaN
FSgn(x) == IF IsZero(x) THEN 0 ELSE x.s

FNeg(x) == CASE x.t = "nan" -> NaN
             [] x.t = "pinf" -> NInf
             [] x.t = "ninf" -> PInf
             [] x.t = "num" -> Num(0 - x.s, x.m, x.e)

FAbs(x) == IF x.s < 0 THEN FNeg(x) ELSE x

\* s * a * 2^e + t * b * 2^e
FAddAligned(s, a, t, b, e) ==
    IF s = t THEN Round(s, BAdd(a, b), e)
    ELSE IF BCmp(a, b) = 0 THEN Zero(1)
    ELSE IF BCmp(a, b) > 0 THEN Round(s, BSub(a, b), e)
    ELSE Round(t, BSub(b, a), e)

FAddFinite(x, y) ==
    IF IsZero(x) THEN (IF IsZero(y) /\ x.s # y.s THEN Zero(1) ELSE y)
    ELSE IF IsZero(y) THEN x
    ELSE FAddAligned(x.s, BShl(x.m, x.e - Min(x.e, y.e)),
                     y.s, BShl(y.m, y.e - Min(x.e, y.e)), Min(x.e, y.e))

FAdd(x, y) ==
    CASE IsNaN(x) \/ IsNaN(y) -> NaN
      [] IsInf(x) /\ IsInf(y) -> IF x.t = y.t THEN x ELSE NaN
      [] IsInf(x) /\ IsFinite(y) -> x
      [] IsFinite(x) /\ IsInf(y) -> y
      [] IsFinite(x) /\ IsFinite(y) -> FAddFinite(x, y)

FSub(x, y) == FAdd(x, FNeg(y))

FMul(x, y) ==
    CASE IsNaN(x) \/ IsNaN(y) -> NaN
      [] IsInf(x) \/ IsInf(y) ->
            IF IsZero(x) \/ IsZero(y) THEN NaN ELSE FInfOf(x.s * y.s)
      [] IsFinite(x) /\ IsFinite(y) ->
            IF IsZero(x) \/ IsZero(y) THEN Zero(x.s * y.s)
            ELSE Round(x.s * y.s, BMul(x.m, y.m), x.e + y.e)

\* the quotient q * 2^e of sign s rounded, a remainder folded in as one more low bit
FDivRound(s, qr, e) ==
    IF Len(qr.r) = 0 THEN Round(s, qr.q, e)
    ELSE Round(s, BAdd(BShl(qr.q, 1), <<1>>), e - 1)

\* x / y for finite non-zero x and y, the dividend scaled by 2^k
FDivScaled(x, y, k) == FDivRound(x.s * y.s, BDivMod(BShl(x.m, k), y.m), x.e - y.e - k)

FDivFinite(x, y) ==
    IF IsZero(y) THEN (IF IsZero(x) THEN NaN ELSE FInfOf(x.s * y.s))
    ELSE IF IsZero(x) THEN Zero(x.s * y.s)
    ELSE FDivScaled(x, y, MantBits + 2 + BBitLen(y.m) - BBitLen(x.m))

FDiv(x, y) ==
    CASE IsNaN(x) \/ IsNaN(y) -> NaN
      [] IsInf(x) /\ IsInf(y) -> NaN
      [] IsInf(x) /\ IsFinite(y) -> FInfOf(x.s * y.s)
      [] IsFinite(x) /\ IsInf(y) -> Zero(x.s * y.s)
      [] IsFinite(x) /\ IsFinite(y) -> FDivFinite(x, y)

FDec(n, d) == FDiv(FInt(n), FInt(d))

\* the root rt.root * 2^h rounded, its inexactness folded in as one more low bit
FSqrtRound(rt, h) ==
    IF rt.exact THEN Round(1, rt.root, h)
    ELSE Round(1, BAdd(BShl(rt.root, 1), <<1>>), h - 1)

\* sqrt of x > 0, its mantissa scaled by 2^k and by 2 once more where that
\* leaves an odd exponent
FSqrtScaled(x, k) ==
    FSqrtRound(BSqrt(BShl(x.m, k + ((x.e - k) % 2))),
               ((x.e - k) - ((x.e - k) % 2)) \div 2)

\* np.sqrt
FSqrt(x) ==
    CASE x.t = "nan" -> NaN
      [] x.t = "pinf" -> PInf
      [] x.t = "ninf" -> NaN
      [] x.t = "num" ->
            IF IsZero(x) THEN x
            ELSE IF x.s < 0 THEN NaN
            ELSE FSqrtScaled(x, Max(0, 2 * MantBits + 2 - BBitLen(x.m)))

\* sign of |x| - |y| for finite non-zero x and y
FCmpMag(x, y) ==
    IF BBitLen(x.m) + x.e > BBitLen(y.m) + y.e THEN 1
    ELSE IF BBitLen(x.m) + x.e < BBitLen(y.m) + y.e THEN 0 - 1
    ELSE BCmp(BShl(x.m, x.e - Min(x.e, y.e)), BShl(y.m, y.e - Min(x.e, y.e)))

FCmpFinite(x, y) ==
    IF FSgn(x) # FSgn(y) THEN (IF FSgn(x) > FSgn(y) THEN 1 ELSE 0 - 1)
    ELSE IF IsZero(x) THEN 0
    ELSE x.s * FCmpMag(x, y)

\* sign of x - y for floats that are not NaN (an infinity has its sign in s)
FCmp(x, y) ==
    CASE IsInf(x) /\ IsInf(y) -> IF x.t = y.t THEN 0 ELSE x.s
      [] IsInf(x) /\ IsFinite(y) -> x.s
      [] IsFinite(x) /\ IsInf(y) -> 0 - y.s
      [] IsFinite(x) /\ IsFinite(y) -> FCmpFinite(x, y)

FLt(x, y) == ~IsNaN(x) /\ ~IsNaN(y) /\ FCmp(x, y) < 0
FLe(x, y) == ~IsNaN(x) /\ ~IsNaN(y) /\ FCmp(x, y) <= 0
FGt(x, y) == ~IsNaN(x) /\ ~IsNaN(y) /\ FCmp(x, y) > 0
FGe(x, y) == ~IsNaN(x) /\ ~IsNaN(y) /\ FCmp(x, y) >= 0
FEq(x, y) == ~IsNaN(x) /\ ~IsNaN(y) /\ FCmp(x, y) = 0

\* the decimal literals of the program, as the floats Python reads them
Dec0_2 == FDec(2, 10)
Dec0_25 == FDec(25, 100)
Dec0_4 == FDec(4, 10)
Dec0_5 == FDec(5, 10)
Dec0_6 == FDec(6, 10)
Dec0_8 == FDec(8, 10)
Dec1_2 == FDec(12, 10)
Dec1_5 == FDec(15, 10)

\* the integer a float x >= 0 under 2^30 is cut down to
FTrunc(x) ==
    IF IsZero(x) THEN 0
    ELSE IF x.e >= 0 THEN LeadInt(BShl(x.m, x.e))
    ELSE LeadInt(BShr(x.m, 0 - x.e))

\* ------------------------------------------------------------ bounds
\* longest close series
MaxLen == 3
\* closes range over 0..MaxClose, or over -1..1
MaxClose == 2
\* windows range over 1..MaxWindow
MaxWindow == 3
\* multipliers range over -1..MaxK
MaxK == 2
\* longest frame handed to get_bollinger_signals directly
MaxRows == 2
\* analysis: rows of any width before the run of equal ones
MaxFree == 2
\* calls of save_bollinger_bands_data in a row
MaxCalls == 2
\* seconds CURRENT_TIMESTAMP advances over a run
MaxClock == 1
\* main: the loop runs over the first MaxSymbols symbols
MaxSymbols == 2

\* ------------------------------------------------------------ program constants
\* calculate_bollinger_bands(window=20)
DefaultWindow == 20
\* calculate_bollinger_bands(std_dev=2)
DefaultStdDev == 2
\* rolling(window=20) of the squeeze test
SqueezeWindow == 20
\* df.tail(20) of the pattern analysis
TailLen == 20

VARIABLES
    pc,         \* position of the running function or loop
    df,         \* the DataFrame being processed
    window,     \* calculate_bollinger_bands: window
    std_dev,    \* calculate_bollinger_bands: std_dev
    analysis,   \* the dict analyze_bollinger_patterns returned
    sym, tf,    \* symbol and timeframe being processed
    table,      \* bollinger_bands_data: the committed rows
    seqno,      \* sqlite_sequence: the largest id AUTOINCREMENT has given out
    clock,      \* CURRENT_TIMESTAMP
    conn,       \* the open connection's transaction: its uncommitted view
    inserted,   \* save_bollinger_bands_data: rows executed so far
    log,        \* the lines printed
    prev,       \* the previous call of save_bollinger_bands_data and the table it left
    pairIdx     \* main: position in the loop over (symbol, timeframe)

frameVars == <<df, window, std_dev>>
dbVars == <<table, seqno, clock, conn, inserted>>
mainVars == <<analysis, sym, tf, log, prev, pairIdx>>
vars == <<pc, df, window, std_dev, analysis, sym, tf, table, seqno, clock, conn,
          inserted, log, prev, pairIdx>>

\* {}: the empty dict
EmptyDict == [x \in {} |-> 0]

\* no connection open
Closed == [open |-> FALSE, table |-> {}, seqno |-> 0]

\* no earlier call: the table is as init_database left it
NoCall == [called |-> FALSE, sym |-> "", tf |-> "", df |-> <<>>, ok |-> FALSE,
           table |-> {}, seqno |-> 0]

\* the database just after init_database on a fresh file, nothing else started
Quiet ==
    /\ table = {} /\ seqno = 0 /\ clock = 0 /\ conn = Closed /\ inserted = 0
    /\ analysis = EmptyDict /\ sym = "" /\ tf = "" /\ log = <<>>
    /\ prev = NoCall /\ pairIdx = 0

\* df[name]: one column of the frame
Col(frame, name) == [i \in 1..Len(frame) |-> frame[i][name]]

\* ------------------------------------------------------------ rolling windows
\* Series.rolling(window): the first row of the window ending at row i
Start(i, w) == Max(1, i - w + 1)

\* the window ending at row i shares no row with the one before it: the
\* kernels start it from nothing
StartsAnew(i, w) == i = 1 \/ Start(i, w) >= i

\* the window ending at row i has let go of the first row of the one before it
LetsGo(i, w) == Start(i, w) > Start(i - 1, w)

\* rolling hands its kernels the values with inf turned into NaN
PrepValues(col) == [i \in 1..Len(col) |-> IF IsInf(col[i]) THEN NaN ELSE col[i]] \o << >>

signbit(x) == x.s < 0

\* Kahan summation: t = sum + y and the compensation t - sum - y it leaves
KahanTo(sum, y, t) == [sum |-> t, comp |-> FSub(FSub(t, sum), y)]
Kahan(sum, y) == KahanTo(sum, y, FAdd(sum, y))

\* ------------------------------------------------------------ rolling mean
\* roll_mean: its state where a window starts, out the results so far
MeanAnew(first, out) ==
    [sum_x |-> Zero(1), compensation_add |-> Zero(1), compensation_remove |-> Zero(1),
     nobs |-> 0, neg_ct |-> 0, prev_value |-> first,
     num_consecutive_same_value |-> 0, out |-> out]

AddMeanPut(st, val, k) ==
    [st EXCEPT !.nobs = @ + 1,
               !.sum_x = k.sum,
               !.compensation_add = k.comp,
               !.neg_ct = IF signbit(val) THEN @ + 1 ELSE @,
               !.num_consecutive_same_value = IF FEq(val, st.prev_value) THEN @ + 1 ELSE 1,
               !.prev_value = val]

add_mean(st, val) ==
    IF IsNaN(val) THEN st
    ELSE AddMeanPut(st, val, Kahan(st.sum_x, FSub(val, st.compensation_add)))

RemoveMeanPut(st, val, k) ==
    [st EXCEPT !.nobs = @ - 1,
               !.sum_x = k.sum,
               !.compensation_remove = k.comp,
               !.neg_ct = IF signbit(val) THEN @ - 1 ELSE @]

remove_mean(st, val) ==
    IF IsNaN(val) THEN st
    ELSE RemoveMeanPut(st, val, Kahan(st.sum_x, FSub(FNeg(val), st.compensation_remove)))

\* a mean of the wrong sign is 0
MeanClamped(st, result) ==
    IF st.neg_ct = 0 /\ FLt(result, Zero(1)) THEN Zero(1)
    ELSE IF st.neg_ct = st.nobs /\ FGt(result, Zero(1)) THEN Zero(1)
    ELSE result

calc_mean(minp, st) ==
    IF st.nobs >= minp /\ st.nobs > 0
    THEN IF st.num_consecutive_same_value >= st.nobs THEN st.prev_value
         ELSE MeanClamped(st, FDiv(st.sum_x, FInt(st.nobs)))
    ELSE NaN

\* the state as the window moves on to end at row i: started anew, or the row
\* it lets go of removed
MeanMoved(values, w, i, st) ==
    IF StartsAnew(i, w) THEN MeanAnew(values[Start(i, w)], st.out)
    ELSE IF LetsGo(i, w) THEN remove_mean(st, values[Start(i - 1, w)])
    ELSE st

MeanPut(minp, st) == [st EXCEPT !.out = Append(@, calc_mean(minp, st))]

\* row i: the rows leaving the window are removed, row i is added, the mean
\* is put out
MeanRow(values, w, minp, i, st) ==
    MeanPut(minp, add_mean(MeanMoved(values, w, i, st), values[i]))

RECURSIVE RollMeanFrom(_, _, _, _)
RollMeanFrom(values, w, minp, st) ==
    IF Len(st.out) = Len(values) THEN st.out
    ELSE RollMeanFrom(values, w, minp, MeanRow(values, w, minp, Len(st.out) + 1, st))

\* rolling(window, min_periods).mean(): roll_mean over the prepared values
RollingMean(col, w, minp) ==
    RollMeanFrom(PrepValues(col), w, minp, MeanAnew(NaN, << >>))

\* ------------------------------------------------------------ rolling standard deviation
\* roll_var: its state where a window starts
VarAnew(first, out) ==
    [mean_x |-> Zero(1), ssqdm_x |-> Zero(1), nobs |-> 0,
     compensation_add |-> Zero(1), compensation_remove |-> Zero(1),
     prev_value |-> first, num_consecutive_same_value |-> 0, out |-> out]

\* t = y - mean, the step of the mean, and the compensation t + mean - y
DeltaTo(mean, y, t) == [delta |-> t, comp |-> FSub(FAdd(t, mean), y)]
Delta(mean, y) == DeltaTo(mean, y, FSub(y, mean))

AddVarPut(st, val, prev_mean, d, mean) ==
    [st EXCEPT !.nobs = @ + 1,
               !.num_consecutive_same_value = IF FEq(val, st.prev_value) THEN @ + 1 ELSE 1,
               !.prev_value = val,
               !.compensation_add = d.comp,
               !.mean_x = mean,
               !.ssqdm_x = FAdd(@, FMul(FSub(val, prev_mean), FSub(val, mean)))]

AddVarBy(st, val, prev_mean, d) ==
    AddVarPut(st, val, prev_mean, d, FAdd(st.mean_x, FDiv(d.delta, FInt(st.nobs + 1))))

\* Welford's step for one more observation
add_var(st, val) ==
    IF IsNaN(val) THEN st
    ELSE AddVarBy(st, val, FSub(st.mean_x, st.compensation_add),
                  Delta(st.mean_x, FSub(val, st.compensation_add)))

RemoveVarPut(st, val, prev_mean, d, mean) ==
    [st EXCEPT !.nobs = @ - 1,
               !.compensation_remove = d.comp,
               !.mean_x = mean,
               !.ssqdm_x = FSub(@, FMul(FSub(val, prev_mean), FSub(val, mean)))]

RemoveVarBy(st, val, prev_mean, d) ==
    RemoveVarPut(st, val, prev_mean, d, FSub(st.mean_x, FDiv(d.delta, FInt(st.nobs - 1))))

\* Welford's step for one observation less
remove_var(st, val) ==
    IF IsNaN(val) THEN st
    ELSE IF st.nobs = 1
    THEN [st EXCEPT !.nobs = 0, !.mean_x = Zero(1), !.ssqdm_x = Zero(1)]
    ELSE RemoveVarBy(st, val, FSub(st.mean_x, st.compensation_remove),
                     Delta(st.mean_x, FSub(val, st.compensation_remove)))

calc_var(minp, ddof, st) ==
    IF st.nobs >= minp /\ st.nobs > ddof
    THEN IF st.nobs = 1 \/ st.num_consecutive_same_value >= st.nobs THEN Zero(1)
         ELSE FDiv(st.ssqdm_x, FInt(st.nobs - ddof))
    ELSE NaN

VarMoved(values, w, i, st) ==
    IF StartsAnew(i, w) THEN VarAnew(values[Start(i, w)], st.out)
    ELSE IF LetsGo(i, w) THEN remove_var(st, values[Start(i - 1, w)])
    ELSE st

VarPut(minp, ddof, st) == [st EXCEPT !.out = Append(@, calc_var(minp, ddof, st))]

VarRow(values, w, minp, ddof, i, st) ==
    VarPut(minp, ddof, add_var(VarMoved(values, w, i, st), values[i]))

RECURSIVE RollVarFrom(_, _, _, _, _)
RollVarFrom(values, w, minp, ddof, st) ==
    IF Len(st.out) = Len(values) THEN st.out
    ELSE RollVarFrom(values, w, minp, ddof,
                     VarRow(values, w, minp, ddof, Len(st.out) + 1, st))

roll_var(values, w, minp, ddof) ==
    RollVarFrom(values, w, Max(minp, 1), ddof, VarAnew(NaN, << >>))

\* zsqrt: the square root, 0 for a negative number
zsqrt(x) == IF FLt(x, Zero(1)) THEN Zero(1) ELSE FSqrt(x)

ZSqrtAll(var) == [i \in 1..Len(var) |-> zsqrt(var[i])] \o << >>

\* the sample standard deviation where the population one is asked for
RollingStdSample(col, w, minp, ddof) ==
    ZSqrtAll(roll_var(PrepValues(col), w, minp, ddof + 1))

\* rolling(window, min_periods).std(ddof)
RollingStd(col, w, minp, ddof) == ZSqrtAll(roll_var(PrepValues(col), w, minp, ddof))

\* Series.fillna(v)
fillna(col, v) == [i \in 1..Len(col) |-> IF IsNaN(col[i]) THEN v ELSE col[i]]

\* ------------------------------------------------------------ calculate_bollinger_bands
\* df['bb_upper'] = df['bb_middle'] + (df['bb_std'] * std_dev)
upper_band(middle, std, k) == FAdd(middle, FMul(std, k))

\* the lower band one standard deviation under the middle, whatever std_dev
lower_band_unscaled(middle, std, k) == FSub(middle, std)

\* df['bb_lower'] = df['bb_middle'] - (df['bb_std'] * std_dev)
lower_band(middle, std, k) == FSub(middle, FMul(std, k))

\* df['bb_width'] = (df['bb_upper'] - df['bb_lower']) / df['bb_middle']
band_width(upper, lower, middle) == FDiv(FSub(upper, lower), middle)

\* df['bb_percent'] = (df['close'] - df['bb_lower']) / (df['bb_upper'] - df['bb_lower'])
\* df['bb_percent'] = df['bb_percent'].fillna(0.5)
percent_b(close, upper, lower) ==
    fillna(<<FDiv(FSub(close, lower), FSub(upper, lower))>>, Dec0_5)[1]

\* the columns derived from the two bands of one row
WithWidthAndPercent(raw, middle, std, upper, lower) ==
    [timestamp |-> raw.timestamp, open |-> raw.open, high |-> raw.high,
     low |-> raw.low, close |-> raw.close, volume |-> raw.volume,
     bb_middle |-> middle, bb_std |-> std, bb_upper |-> upper, bb_lower |-> lower,
     bb_width |-> band_width(upper, lower, middle),
     bb_percent |-> percent_b(raw.close, upper, lower)]

\* one row of the result, from its rolling mean and standard deviation
WithBands(raw, middle, std, k) ==
    WithWidthAndPercent(raw, middle, std, upper_band(middle, std, k),
                        lower_band(middle, std, k))

\* the columns are computed in the order of the code, each over the whole frame
BandRows(frame, mean, std, k) ==
    [i \in 1..Len(frame) |-> WithBands(frame[i], mean[i], std[i], k)] \o << >>

calculate_bollinger_bands(frame, w, k) ==
    BandRows(frame, RollingMean(Col(frame, "close"), w, 1),
             RollingStd(Col(frame, "close"), w, 1, 0), k)

\* ------------------------------------------------------------ get_bollinger_signals
\* the observations of the window ending at row i of prepared values
RollObs(values, i, w) == {j \in Start(i, w)..i : ~IsNaN(values[j])}

\* the skiplist holds exactly k cells of obs before the cell i: a cell is
\* inserted after every cell not over it, so cells that compare equal (-0.0
\* and 0.0) stay in the order they entered the window
IsKth(values, obs, k, i) ==
    Cardinality({j \in obs : \/ FLt(values[j], values[i])
                             \/ FEq(values[j], values[i]) /\ j < i}) = k

\* skiplist_get(k): the k-th (from 0) of the cells values[j], j in obs
KthSmallest(values, obs, k) ==
    values[CHOOSE i \in obs : IsKth(values, obs, k, i)]

\* vlow + (vhigh - vlow) * (idx_with_fraction - idx)
Interpolated(vlow, vhigh, frac) == FAdd(vlow, FMul(FSub(vhigh, vlow), frac))

QuantileFrom(values, obs, idx_with_fraction, idx) ==
    IF FEq(idx_with_fraction, FInt(idx)) THEN KthSmallest(values, obs, idx)
    ELSE Interpolated(KthSmallest(values, obs, idx), KthSmallest(values, obs, idx + 1),
                      FSub(idx_with_fraction, FInt(idx)))

QuantileIdx(values, obs, idx_with_fraction) ==
    QuantileFrom(values, obs, idx_with_fraction, FTrunc(idx_with_fraction))

\* the quantile q of the nobs observations obs, linear interpolation
QuantileAt(values, obs, nobs, minp, q) ==
    IF nobs < minp \/ nobs = 0 THEN NaN
    ELSE IF nobs = 1 THEN KthSmallest(values, obs, 0)
    ELSE QuantileIdx(values, obs, FMul(q, FInt(nobs - 1)))

\* rolling(window, min_periods).quantile(q), over the prepared values
roll_quantile(values, w, minp, q) ==
    [i \in 1..Len(values) |->
        QuantileAt(values, RollObs(values, i, w), Cardinality(RollObs(values, i, w)),
                   minp, q)] \o << >>

\* x <= the quantile
LeQuantile(x, qv) == FLe(x, qv)

\* x < the quantile
LtQuantile(x, qv) == FLt(x, qv)

buy_condition(row) ==
    FLe(row.close, row.bb_lower) \/ FLe(row.bb_percent, Dec0_2)

\* the sell condition without its price-against-band test
sell_condition_percent_only(row) == FGe(row.bb_percent, Dec0_8)

sell_condition(row) ==
    FGe(row.close, row.bb_upper) \/ FGe(row.bb_percent, Dec0_8)

\* df.loc[cond, 'bb_signal'] = value
Assign(cond, value, old) == IF cond THEN value ELSE old

\* the assignments with buy made last
bb_signal_buy_last(row) ==
    Assign(buy_condition(row), "buy", Assign(sell_condition(row), "sell", "hold"))

\* the three assignments to bb_signal, in the order of the code
bb_signal(row) ==
    Assign(sell_condition(row), "sell", Assign(buy_condition(row), "buy", "hold"))

\* df['bb_width'] < its rolling first quartile
UnderQuantile(width, q25) ==
    [i \in 1..Len(width) |-> LtQuantile(width[i], q25[i])]

bb_squeeze(frame) ==
    UnderQuantile(Col(frame, "bb_width"),
                  roll_quantile(PrepValues(Col(frame, "bb_width")), SqueezeWindow, 1,
                                Dec0_25))

\* the frame with its two new columns
WithSignals(frame, signal, squeeze) ==
    [i \in 1..Len(frame) |->
        [timestamp |-> frame[i].timestamp, open |-> frame[i].open,
         high |-> frame[i].high, low |-> frame[i].low, close |-> frame[i].close,
         volume |-> frame[i].volume,
         bb_middle |-> frame[i].bb_middle, bb_std |-> frame[i].bb_std,
         bb_upper |-> frame[i].bb_upper, bb_lower |-> frame[i].bb_lower,
         bb_width |-> frame[i].bb_width, bb_percent |-> frame[i].bb_percent,
         bb_signal |-> signal[i], bb_squeeze |-> squeeze[i]]] \o << >>

get_bollinger_signals(frame) ==
    WithSignals(frame, [i \in 1..Len(frame) |-> bb_signal(frame[i])],
                bb_squeeze(frame))

\* ------------------------------------------------------------ the pipeline
\* every sequence over S of length 0..n
SeqsUpTo(S, n) == UNION {[1..m -> S] : m \in 0..n}

\* a raw frame: closes ordered by timestamp, timestamps 1, 2, ...; each candle
\* opens one under its close, spans open..close and trades a volume of 10
RawFrame(closes) ==
    [i \in 1..Len(closes) |->
        [timestamp |-> i, open |-> FInt(closes[i] - 1), high |-> FInt(closes[i]),
         low |-> FInt(closes[i] - 1), close |-> FInt(closes[i]),
         volume |-> FInt(10)]]

InitBands ==
    /\ \E closes \in SeqsUpTo(0..MaxClose, MaxLen) \cup SeqsUpTo((0 - 1)..1, MaxLen) :
          df = RawFrame(closes)
    /\ window \in 1..MaxWindow
    /\ std_dev \in (0 - 1)..MaxK
    /\ pc = "raw"
    /\ Quiet

Calculate ==
    /\ pc = "raw"
    /\ df' = calculate_bollinger_bands(df, window, FInt(std_dev))
    /\ pc' = "bands"
    /\ UNCHANGED <<window, std_dev, dbVars, mainVars>>

Signals ==
    /\ pc = "bands"
    /\ df' = get_bollinger_signals(df)
    /\ pc' = "signals"
    /\ UNCHANGED <<window, std_dev, dbVars, mainVars>>

NextBands == Calculate \/ Signals

\* calculate_bollinger_bands, then get_bollinger_signals, on a close series
SpecBands == InitBands /\ [][NextBands]_vars

\* a frame with its band columns filled in by the caller: close 1 between,
\* on or outside the bands, any bb_percent
BandedRow(i, lower, upper, pct) ==
    [timestamp |-> i, open |-> FInt(1), high |-> FInt(1), low |-> FInt(1),
     close |-> FInt(1), volume |-> FInt(10),
     bb_middle |-> FInt(1), bb_std |-> FInt(0),
     bb_upper |-> upper, bb_lower |-> lower,
     bb_width |-> band_width(upper, lower, FInt(1)), bb_percent |-> pct]

BandPairs == {<<FInt(0), FInt(2)>>, <<FInt(1), FInt(2)>>, <<FInt(0), FInt(1)>>,
              <<FInt(1), FInt(1)>>, <<FInt(2), FInt(3)>>, <<NaN, NaN>>}
Percents == {Dec0_2, Dec0_5, Dec0_8, NaN}

InitSignals ==
    /\ \E n \in 0..MaxRows :
         \E bands \in [1..n -> BandPairs], pcts \in [1..n -> Percents] :
            df = [i \in 1..n |-> BandedRow(i, bands[i][1], bands[i][2], pcts[i])]
    /\ window = DefaultWindow
    /\ std_dev = DefaultStdDev
    /\ pc = "bands"
    /\ Quiet

\* get_bollinger_signals on any banded frame
SpecSignals == InitSignals /\ [][Signals]_vars

\* ------------------------------------------------------------ analyze_bollinger_patterns
\* df.tail(n)
tail(frame, n) == SubSeq(frame, Max(1, Len(frame) - n + 1), Len(frame))

\* res += a[i] for the elements from i on
RECURSIVE SumFrom(_, _, _)
SumFrom(a, i, res) ==
    IF i > Len(a) \/ IsNaN(res) THEN res ELSE SumFrom(a, i + 1, FAdd(res, a[i]))

\* the eight running sums with the block of eight elements from b added
RECURSIVE Accumulated(_, _, _)
Accumulated(a, r, b) ==
    IF b + 7 > Len(a) - (Len(a) % 8) THEN r
    ELSE Accumulated(a, [j \in 1..8 |-> FAdd(r[j], a[b + j - 1])] \o << >>, b + 8)

\* ((r[0] + r[1]) + (r[2] + r[3])) + ((r[4] + r[5]) + (r[6] + r[7]))
SumOfEight(r) ==
    FAdd(FAdd(FAdd(r[1], r[2]), FAdd(r[3], r[4])),
         FAdd(FAdd(r[5], r[6]), FAdd(r[7], r[8])))

\* numpy's pairwise sum of up to 128 elements: one after the other from -0.0 when
\* there are fewer than 8, else eight running sums, added up, then the rest
pairwise_sum(a) ==
    IF Len(a) < 8 THEN SumFrom(a, 1, Zero(0 - 1))
    ELSE SumFrom(a, Len(a) - (Len(a) % 8) + 1,
                 SumOfEight(Accumulated(a, SubSeq(a, 1, 8), 9)))

\* ndarray.sum(): the first element plus the pairwise sum of the others
NpSum(a) == IF Len(a) = 0 THEN Zero(1) ELSE FAdd(a[1], pairwise_sum(SubSeq(a, 2, Len(a))))

\* nanops.nanmean: the sum with NaN taken as 0, over the count of the others
nanmean(values, count) ==
    IF count > 0 THEN FDiv(NpSum(fillna(values, Zero(1)) \o << >>), FInt(count)) ELSE NaN

\* Series.mean(): NaN is skipped; NaN when nothing is left
SeriesMean(col) == nanmean(col, Cardinality({j \in 1..Len(col) : ~IsNaN(col[j])}))

_get_position_description(bb_percent) ==
    IF FGe(bb_percent, FInt(1)) THEN "Above upper band (very overbought)"
    ELSE IF FGe(bb_percent, Dec0_8) THEN "Near upper band (overbought)"
    ELSE IF FGe(bb_percent, Dec0_6) THEN "Above middle (bullish)"
    ELSE IF FGe(bb_percent, Dec0_4) THEN "Around middle (neutral)"
    ELSE IF FGe(bb_percent, Dec0_2) THEN "Below middle (bearish)"
    ELSE IF FGt(bb_percent, FInt(0)) THEN "Near lower band (oversold)"
    ELSE "Below lower band (very oversold)"

\* the label of a ratio: the first threshold it reaches
VolatilityOf(ratio) ==
    IF FGe(ratio, Dec1_5) THEN "High volatility (bands expanding)"
    ELSE IF FGe(ratio, Dec1_2) THEN "Above average volatility"
    ELSE IF FGe(ratio, Dec0_8) THEN "Normal volatility"
    ELSE IF FGe(ratio, Dec0_6) THEN "Below average volatility"
    ELSE "Low volatility (potential squeeze)"

\* the ratio guarded by avg_width != 0 instead of avg_width > 0
_get_volatility_state_nonzero_guard(current_width, avg_width) ==
    VolatilityOf(IF ~IsNaN(avg_width) /\ ~FEq(avg_width, FInt(0))
                 THEN FDiv(current_width, avg_width) ELSE FInt(1))

_get_volatility_state(current_width, avg_width) ==
    VolatilityOf(IF FGt(avg_width, FInt(0))
                 THEN FDiv(current_width, avg_width) ELSE FInt(1))

analyze_bollinger_patterns(frame) ==
    IF Len(frame) = 0 THEN EmptyDict
    ELSE LET latest == frame[Len(frame)]
             recent_data == tail(frame, TailLen)
         IN  [current_position |-> _get_position_description(latest.bb_percent),
              volatility_state |->
                  _get_volatility_state(latest.bb_width,
                                        SeriesMean(Col(recent_data, "bb_width"))),
              recent_signal |->
                  IF "bb_signal" \in DOMAIN latest THEN latest.bb_signal ELSE "hold",
              squeeze_active |->
                  IF "bb_squeeze" \in DOMAIN latest THEN latest.bb_squeeze ELSE FALSE,
              price_vs_bands |->
                  [close |-> latest.close, upper_band |-> latest.bb_upper,
                   middle_band |-> latest.bb_middle, lower_band |-> latest.bb_lower,
                   percent_b |-> latest.bb_percent]]

\* a frame with its signal columns filled in by the caller
SignalRow(i, width, pct) ==
    [timestamp |-> i, open |-> FInt(1), high |-> FInt(1), low |-> FInt(1),
     close |-> FInt(1), volume |-> FInt(10),
     bb_middle |-> FInt(1), bb_std |-> Dec0_5,
     bb_upper |-> FInt(2), bb_lower |-> FInt(0), bb_width |-> width,
     bb_percent |-> pct, bb_signal |-> "hold", bb_squeeze |-> FALSE]

Widths == {FInt(0 - 1), FInt(0), FInt(1), FInt(2), FInt(8), NaN}
LastPercents == {FInt(0), FDec(1, 10), FDec(3, 10), Dec0_5, FDec(7, 10),
                 FDec(9, 10), FInt(1)}

\* n copies of x
Repeat(x, n) == [i \in 1..n |-> x]

\* any widths for the first rows, then none or a run of one width as long as
\* the tail the analysis reads, or one row shorter
InitAnalyze ==
    /\ \E free \in SeqsUpTo(Widths, MaxFree), run \in {0, TailLen - 1, TailLen},
          w \in Widths, pct \in LastPercents :
          /\ run = 0 => w = FInt(0)
          /\ df = [i \in 1..(Len(free) + run) |->
                      SignalRow(i, (free \o Repeat(w, run))[i],
                                IF i = Len(free) + run THEN pct ELSE Dec0_5)]
    /\ window = DefaultWindow
    /\ std_dev = DefaultStdDev
    /\ pc = "signals"
    /\ Quiet

Analyze ==
    /\ pc = "signals"
    /\ analysis' = analyze_bollinger_patterns(df)
    /\ pc' = "analyzed"
    /\ UNCHANGED <<frameVars, dbVars, sym, tf, log, prev, pairIdx>>

\* analyze_bollinger_patterns on any frame of signals
SpecAnalyze == InitAnalyze /\ [][Analyze]_vars

\* ------------------------------------------------------------ save_bollinger_bands_data
\* SQL NULL
Null == [t |-> "null", s |-> 1, m |-> << >>, e |-> 0]

\* a float bound to a statement parameter, as the REAL column holds it:
\* sqlite3 stores NaN as NULL and -0.0 as 0.0
ToSql(x) == IF IsNaN(x) THEN Null ELSE IF IsZero(x) THEN Zero(1) ELSE x

\* the column values of one row of df_to_save, as bound to the INSERT
Params(symbol, timeframe, row) ==
    [symbol |-> symbol, timeframe |-> timeframe, timestamp |-> row.timestamp,
     open |-> ToSql(row.open), high |-> ToSql(row.high), low |-> ToSql(row.low),
     close |-> ToSql(row.close), volume |-> ToSql(row.volume),
     bb_upper |-> ToSql(row.bb_upper),
     bb_lower |-> ToSql(row.bb_lower), bb_middle |-> ToSql(row.bb_middle),
     bb_width |-> ToSql(row.bb_width), bb_percent |-> ToSql(row.bb_percent)]

\* open, high, low, close, volume REAL NOT NULL
NotNullOk(p) ==
    p.open # Null /\ p.high # Null /\ p.low # Null /\ p.close # Null /\ p.volume # Null

\* UNIQUE(symbol, timeframe, timestamp)
SameKey(r, p) ==
    r.symbol = p.symbol /\ r.timeframe = p.timeframe /\ r.timestamp = p.timestamp

\* the stored row: id from AUTOINCREMENT, created_at from CURRENT_TIMESTAMP
Stored(p, id, now) ==
    [id |-> id, created_at |-> now,
     symbol |-> p.symbol, timeframe |-> p.timeframe, timestamp |-> p.timestamp,
     open |-> p.open, high |-> p.high, low |-> p.low, close |-> p.close,
     volume |-> p.volume, bb_upper |-> p.bb_upper, bb_lower |-> p.bb_lower,
     bb_middle |-> p.bb_middle, bb_width |-> p.bb_width, bb_percent |-> p.bb_percent]

\* a plain INSERT into a table without the UNIQUE constraint: the old row stays
InsertKeepingOld(view, p, now) ==
    [open |-> TRUE,
     table |-> view.table \cup {Stored(p, view.seqno + 1, now)},
     seqno |-> view.seqno + 1]

\* INSERT OR REPLACE: the row holding the key is deleted, the new row gets the
\* next id
InsertOrReplace(view, p, now) ==
    [open |-> TRUE,
     table |-> {r \in view.table : ~SameKey(r, p)} \cup {Stored(p, view.seqno + 1, now)},
     seqno |-> view.seqno + 1]

\* a printed line: its tag, the pair it names, the count it carries
LineOf(level, symbol, timeframe, n) ==
    [level |-> level, sym |-> symbol, tf |-> timeframe, n |-> n]

\* CURRENT_TIMESTAMP: time passes, or not, before it is read
Tick == \E dt \in {0, 1} : clock + dt <= MaxClock /\ clock' = clock + dt

\* with sqlite3.connect(...) as conn: cursor = conn.cursor(); inserted = 0
Connect ==
    /\ pc = "connect"
    /\ conn' = [open |-> TRUE, table |-> table, seqno |-> seqno]
    /\ inserted' = 0
    /\ pc' = "execute"
    /\ UNCHANGED <<frameVars, table, seqno, clock, mainVars>>

\* sqlite3.connect raises: except Exception prints the error
ConnectRaise ==
    /\ pc = "connect"
    /\ inserted' = 0
    /\ log' = Append(log, LineOf("ERROR", sym, tf, 0))
    /\ pc' = "returned"
    /\ UNCHANGED <<frameVars, table, seqno, clock, conn, analysis, sym, tf, prev, pairIdx>>


\* cursor.execute(INSERT OR REPLACE ...) for the next row, stamped with
\* CURRENT_TIMESTAMP as the statement runs; inserted += 1
ExecuteRow ==
    /\ pc = "execute"
    /\ inserted < Len(df)
    /\ NotNullOk(Params(sym, tf, df[inserted + 1]))
    /\ Tick
    /\ conn' = InsertOrReplace(conn, Params(sym, tf, df[inserted + 1]), clock')
    /\ inserted' = inserted + 1
    /\ UNCHANGED <<pc, frameVars, table, seqno, mainVars>>

\* the failing statement leaves what the transaction wrote so far in the table
ExecuteRaiseKeepingRows ==
    /\ pc = "execute"
    /\ inserted < Len(df)
    /\ table' = conn.table
    /\ seqno' = conn.seqno
    /\ conn' = Closed
    /\ log' = Append(log, LineOf("ERROR", sym, tf, inserted))
    /\ pc' = "returned"
    /\ UNCHANGED <<frameVars, clock, inserted, analysis, sym, tf, prev, pairIdx>>

\* cursor.execute raises (write rejected, or a NOT NULL column is NULL): the
\* with block rolls the transaction back, except Exception prints the error
ExecuteRaise ==
    /\ pc = "execute"
    /\ inserted < Len(df)
    /\ conn' = Closed
    /\ log' = Append(log, LineOf("ERROR", sym, tf, inserted))
    /\ pc' = "returned"
    /\ UNCHANGED <<frameVars, table, seqno, clock, inserted, analysis, sym, tf, prev,
                   pairIdx>>

\* conn.commit() after the last row; the count is printed
Commit ==
    /\ pc = "execute"
    /\ inserted = Len(df)
    /\ table' = conn.table
    /\ seqno' = conn.seqno
    /\ conn' = Closed
    /\ log' = Append(log, LineOf("INFO", sym, tf, inserted))
    /\ pc' = "returned"
    /\ UNCHANGED <<frameVars, clock, inserted, analysis, sym, tf, prev, pairIdx>>

\* conn.commit() raises: rolled back like a failing statement
CommitRaise ==
    /\ pc = "execute"
    /\ inserted = Len(df)
    /\ conn' = Closed
    /\ log' = Append(log, LineOf("ERROR", sym, tf, inserted))
    /\ pc' = "returned"
    /\ UNCHANGED <<frameVars, table, seqno, clock, inserted, analysis, sym, tf, prev,
                   pairIdx>>

save_bollinger_bands_data ==
    Connect \/ ConnectRaise \/ ExecuteRow \/ ExecuteRaise \/ Commit \/ CommitRaise

\* whether the call that has returned printed [INFO] Saved ...
Saved == Len(log) > 0 /\ log[Len(log)].level = "INFO"

\* the frame main computes from a raw frame: both functions at their defaults
Computed(raw) ==
    get_bollinger_signals(
        calculate_bollinger_bands(raw, DefaultWindow, FInt(DefaultStdDev)))

Symbols == <<"BTC/USDT", "ETH/USDT", "SOL/USDT", "SOL/BTC", "ETH/BTC">>
Timeframes == <<"4h", "1d">>

\* the close series of the raw frames saved and fetched
SomeCloses == {<< >>, <<1>>, <<1, 2>>, <<2, 2>>, <<0 - 1, 0>>}

InitSave ==
    /\ df = <<>>
    /\ window = DefaultWindow
    /\ std_dev = DefaultStdDev
    /\ pc = "idle"
    /\ Quiet

\* a caller hands a computed frame to save_bollinger_bands_data
CallSave ==
    /\ pc = "idle"
    /\ Len(log) < MaxCalls
    /\ \E closes \in SomeCloses : df' = Computed(RawFrame(closes))
    /\ sym' \in {Symbols[1], Symbols[2]}
    /\ tf' = Timeframes[1]
    /\ Tick
    /\ pc' = "connect"
    /\ UNCHANGED <<window, std_dev, table, seqno, conn, inserted, analysis, log, prev,
                   pairIdx>>

\* the call has returned: it becomes the previous call
Return ==
    /\ pc = "returned"
    /\ prev' = [called |-> TRUE, sym |-> sym, tf |-> tf, df |-> df, ok |-> Saved,
                table |-> table, seqno |-> seqno]
    /\ pc' = "idle"
    /\ UNCHANGED <<frameVars, dbVars, analysis, sym, tf, log, pairIdx>>

NextSave == CallSave \/ save_bollinger_bands_data \/ Return

\* calls of save_bollinger_bands_data, one after the other
SpecSave == InitSave /\ [][NextSave]_vars

\* ------------------------------------------------------------ main
\* the (symbol, timeframe) pairs in the order of the two nested loops
Pairs ==
    [i \in 1..(MaxSymbols * Len(Timeframes)) |->
        <<Symbols[((i - 1) \div Len(Timeframes)) + 1],
          Timeframes[((i - 1) % Len(Timeframes)) + 1]>>]

\* a cell of raw_data.close holding text instead of a number
Text == [t |-> "text", s |-> 1, m |-> << >>, e |-> 0]

\* the non-empty frames fetch_raw_data returns: well-formed closes, or one row
\* whose close is no number
RawFrames ==
    {RawFrame(closes) : closes \in SomeCloses \ {<< >>}}
        \cup {<<[timestamp |-> 1, open |-> FInt(1), high |-> FInt(1),
                 low |-> FInt(1), close |-> Text, volume |-> FInt(10)]>>}

\* every close of the frame is a float
Numeric(frame) == \A i \in 1..Len(frame) : frame[i].close.t # "text"

\* print("[CALCULATING] Bollinger Bands for ...")
Started(p) == Append(log, LineOf("CALCULATING", p[1], p[2], 0))

InitBatch ==
    /\ df = <<>>
    /\ window = DefaultWindow
    /\ std_dev = DefaultStdDev
    /\ pc = "loop"
    /\ Quiet

\* fetch_raw_data returns an empty frame: the pair is skipped
MainFetchEmpty ==
    /\ pc = "loop"
    /\ pairIdx < Len(Pairs)
    /\ sym' = Pairs[pairIdx + 1][1]
    /\ tf' = Pairs[pairIdx + 1][2]
    /\ df' = <<>>
    /\ log' = Append(Started(Pairs[pairIdx + 1]),
                     LineOf("NODATA", Pairs[pairIdx + 1][1], Pairs[pairIdx + 1][2], 0))
    /\ pairIdx' = pairIdx + 1
    /\ UNCHANGED <<pc, window, std_dev, dbVars, analysis, prev>>

\* fetch_raw_data returns rows
MainFetch ==
    /\ pc = "loop"
    /\ pairIdx < Len(Pairs)
    /\ sym' = Pairs[pairIdx + 1][1]
    /\ tf' = Pairs[pairIdx + 1][2]
    /\ df' \in RawFrames
    /\ log' = Started(Pairs[pairIdx + 1])
    /\ pc' = "fetched"
    /\ UNCHANGED <<window, std_dev, dbVars, analysis, prev, pairIdx>>

\* fetch_raw_data raises (the raw database cannot be read): nothing in main
\* catches it, the loop is left and the interpreter exits
MainFetchRaise ==
    /\ pc = "loop"
    /\ pairIdx < Len(Pairs)
    /\ sym' = Pairs[pairIdx + 1][1]
    /\ tf' = Pairs[pairIdx + 1][2]
    /\ log' = Started(Pairs[pairIdx + 1])
    /\ pc' = "aborted"
    /\ UNCHANGED <<frameVars, dbVars, analysis, prev, pairIdx>>

\* calculate_bollinger_bands, get_bollinger_signals, then the call of
\* save_bollinger_bands_data
MainCompute ==
    /\ pc = "fetched"
    /\ Numeric(df)
    /\ df' = Computed(df)
    /\ Tick
    /\ pc' = "connect"
    /\ UNCHANGED <<window, std_dev, table, seqno, conn, inserted, mainVars>>

\* the rolling mean of a column holding text raises: nothing in main catches it
MainComputeRaise ==
    /\ pc = "fetched"
    /\ ~Numeric(df)
    /\ pc' = "aborted"
    /\ UNCHANGED <<frameVars, dbVars, mainVars>>

\* save_bollinger_bands_data has returned: the analysis is printed and the
\* loop goes on to the next pair
MainAnalyze ==
    /\ pc = "returned"
    /\ analysis' = analyze_bollinger_patterns(df)
    /\ log' = Append(log, LineOf("ANALYSIS", sym, tf, 0))
    /\ pairIdx' = pairIdx + 1
    /\ pc' = "loop"
    /\ UNCHANGED <<frameVars, dbVars, sym, tf, prev>>

\* the loops are over: main returns
MainDone ==
    /\ pc = "loop"
    /\ pairIdx = Len(Pairs)
    /\ pc' = "done"
    /\ UNCHANGED <<frameVars, dbVars, mainVars>>

main ==
    \/ MainFetchEmpty \/ MainFetch \/ MainFetchRaise
    \/ MainCompute \/ MainComputeRaise
    \/ save_bollinger_bands_data
    \/ MainAnalyze \/ MainDone

\* main(): the batch over the pairs
SpecBatch == InitBatch /\ [][main]_vars


\* ------------------------------------------------------------ properties: signals
Banded == pc \in {"bands", "signals"}

\* C1: every point's signal is one of buy, sell, hold: sell whenever
\* close >= upper or percent_b >= 0.8 (also when the buy condition holds), buy
\* whenever (close <= lower or percent_b <= 0.2) and the sell condition does
\* not hold, hold whenever neither holds.
C1_SignalDecision ==
    pc = "signals" =>
        \A i \in 1..Len(df) :
            LET r == df[i]
                sell == FGe(r.close, r.bb_upper) \/ FGe(r.bb_percent, Dec0_8)
                buy == FLe(r.close, r.bb_lower) \/ FLe(r.bb_percent, Dec0_2)
            IN  /\ r.bb_signal \in {"buy", "sell", "hold"}
                /\ sell => r.bb_signal = "sell"
                /\ (buy /\ ~sell) => r.bb_signal = "buy"
                /\ (~buy /\ ~sell) => r.bb_signal = "hold"

\* a frame with a point where both conditions hold (signal sell), a point
\* that is a buy and a point that is a hold
C1_Witness ==
    /\ pc = "signals"
    /\ \E i \in 1..Len(df) :
          /\ FLe(df[i].close, df[i].bb_lower) /\ FGe(df[i].close, df[i].bb_upper)
          /\ df[i].bb_signal = "sell"
    /\ \E i \in 1..Len(df) : df[i].bb_signal = "buy"

\* ------------------------------------------------------------ properties: bands
\* C2, as claimed: wherever upper == lower, percent_b is exactly 0.5.
C2_PercentHalfWhereBandsEqual ==
    Banded =>
        \A i \in 1..Len(df) :
            FEq(df[i].bb_upper, df[i].bb_lower) => FEq(df[i].bb_percent, Dec0_5)

\* C3, as claimed: wherever close == lower and percent_b > 0.2 the signal is
\* buy.  Stated at the default multiplier, where upper == lower only at zero
\* volatility.
C3_BuyAtLowerBand ==
    (pc = "signals" /\ std_dev = DefaultStdDev) =>
        \A i \in 1..Len(df) :
            (FEq(df[i].close, df[i].bb_lower) /\ FGt(df[i].bb_percent, Dec0_2))
                => df[i].bb_signal = "buy"

\* C3, amended: wherever close == lower and percent_b > 0.2 the bands have
\* collapsed onto the close (upper == lower == close), so the sell condition
\* holds as well and the signal is sell.
C3_SellAtCollapsedBand ==
    pc = "signals" =>
        \A i \in 1..Len(df) :
            (FEq(df[i].close, df[i].bb_lower) /\ FGt(df[i].bb_percent, Dec0_2))
                => /\ FEq(df[i].close, df[i].bb_upper)
                   /\ df[i].bb_signal = "sell"

\* a point on collapsed bands at the default multiplier: close == lower, the
\* 0.5 default for percent_b, signal sell
C3_Witness ==
    /\ pc = "signals"
    /\ std_dev = DefaultStdDev
    /\ \E i \in 1..Len(df) :
          /\ FEq(df[i].close, df[i].bb_lower)
          /\ FGt(df[i].bb_percent, Dec0_2)
          /\ df[i].bb_signal = "sell"

\* C4: squeeze at the first point of a non-empty series is false, also when
\* the first middle is 0 (the width is then NaN).
C4_NoSqueezeAtFirstPoint ==
    (pc = "signals" /\ Len(df) >= 1) => df[1].bb_squeeze = FALSE

\* a series whose first middle is 0 and that squeezes at a later point
C4_Witness ==
    /\ pc = "signals"
    /\ Len(df) >= 2
    /\ FEq(df[1].bb_middle, FInt(0))
    /\ IsNaN(df[1].bb_width)
    /\ df[1].bb_squeeze = FALSE
    /\ \E j \in 2..Len(df) : df[j].bb_squeeze = TRUE

\* 2^-40: the relative error granted to a rolling statistic
StatTol == Num(1, <<1>>, 0 - 40)

\* 2^-51: the error granted to upper - lower, relative to |upper| + |lower|
\* (both bands and their difference are rounded once each)
BandTol == Num(1, <<1>>, 0 - 51)

\* |x - y| <= tol * scale
Within(x, y, tol, scale) == FLe(FAbs(FSub(x, y)), FMul(tol, scale))

\* x is y up to the relative error tol
Near(x, y, tol) == Within(x, y, tol, FAbs(y))

\* the sum of the closes of the rows lo..hi of a raw frame (small integers:
\* the float sum is exact)
RECURSIVE SumClose(_, _, _)
SumClose(frame, lo, hi) ==
    IF lo > hi THEN FInt(0) ELSE FAdd(frame[lo].close, SumClose(frame, lo + 1, hi))

\* the sum of their squares
RECURSIVE SumCloseSquares(_, _, _)
SumCloseSquares(frame, lo, hi) ==
    IF lo > hi THEN FInt(0)
    ELSE FAdd(FMul(frame[lo].close, frame[lo].close), SumCloseSquares(frame, lo + 1, hi))

\* the row holds, up to rounding, the mean and the population standard
\* deviation of cnt closes whose sum is s1 and whose squares sum to s2
IsMeanAndStd(row, cnt, s1, s2) ==
    /\ IsFinite(row.bb_middle) /\ IsFinite(row.bb_std)
    \* mean * cnt = sum
    /\ Near(FMul(row.bb_middle, FInt(cnt)), s1, StatTol)
    \* std >= 0 and std^2 * cnt^2 = cnt * sum of squares - sum^2
    /\ FGe(row.bb_std, FInt(0))
    /\ Near(FMul(FMul(row.bb_std, row.bb_std), FInt(cnt * cnt)),
            FSub(FMul(FInt(cnt), s2), FMul(s1, s1)), StatTol)

\* the number of closes the window ending at row i of n rows holds
WindowCount(i, n, w) == IF n < w THEN i ELSE Min(i, w)

\* C5: at each index the middle is the arithmetic mean and bb_std the
\* population standard deviation (divisor the count, not the count less one) of
\* the min(i+1, w) most recent closes, which for a series shorter than the
\* window are the closes 0..i, each up to the rounding of the floats; the
\* output has one row per input row and no value is undefined during warm-up.
C5_ExpandingWindow ==
    [][pc = "raw" =>
        /\ Len(df') = Len(df)
        /\ \A i \in 1..Len(df) :
            /\ df'[i].timestamp = df[i].timestamp
            /\ IsMeanAndStd(df'[i], WindowCount(i, Len(df), window),
                    SumClose(df, i - WindowCount(i, Len(df), window) + 1, i),
                    SumCloseSquares(df, i - WindowCount(i, Len(df), window) + 1, i))
    ]_vars

\* a series shorter than its window with a non-zero deviation at its last point
C5_Witness ==
    /\ pc = "bands"
    /\ Len(df) >= 2
    /\ Len(df) < window
    /\ FGt(df[Len(df)].bb_std, FInt(0))

\* C6, as claimed: upper >= middle >= lower and upper - lower == 2*k*std at
\* every point, for every multiplier k.
C6_BandsOrderedAnyMultiplier ==
    Banded =>
        \A i \in 1..Len(df) :
            /\ FGe(df[i].bb_upper, df[i].bb_middle)
            /\ FGe(df[i].bb_middle, df[i].bb_lower)
            /\ FEq(FSub(df[i].bb_upper, df[i].bb_lower),
                   FMul(FInt(2 * std_dev), df[i].bb_std))

\* C6, amended: at every point std >= 0 and, for every multiplier k,
\* upper - lower is 2*k*std up to rounding (within 2^-51 of |upper| + |lower|);
\* upper >= middle >= lower for every k >= 0, and upper <= middle <= lower for
\* every k <= 0.
C6_BandsOrderedNonNegativeMultiplier ==
    Banded =>
        \A i \in 1..Len(df) :
            /\ FGe(df[i].bb_std, FInt(0))
            /\ Within(FSub(df[i].bb_upper, df[i].bb_lower),
                      FMul(FInt(2 * std_dev), df[i].bb_std), BandTol,
                      FAdd(FAbs(df[i].bb_upper), FAbs(df[i].bb_lower)))
            /\ std_dev >= 0 =>
                  /\ FGe(df[i].bb_upper, df[i].bb_middle)
                  /\ FGe(df[i].bb_middle, df[i].bb_lower)
            /\ std_dev <= 0 =>
                  /\ FLe(df[i].bb_upper, df[i].bb_middle)
                  /\ FLe(df[i].bb_middle, df[i].bb_lower)

\* a point strictly inside bands of non-zero width whose difference is not
\* the float 2*k*std
C6_Witness ==
    /\ pc = "bands"
    /\ std_dev > 0
    /\ \E i \in 1..Len(df) :
          /\ FGt(df[i].bb_upper, df[i].bb_middle)
          /\ FGt(df[i].bb_middle, df[i].bb_lower)
          /\ ~FEq(FSub(df[i].bb_upper, df[i].bb_lower),
                  FMul(FInt(2 * std_dev), df[i].bb_std))

\* ------------------------------------------------------------ properties: analysis
\* the widths of the rows lo..hi that are not NaN
DefinedWidths(frame, lo, hi) ==
    SelectSeq([j \in 1..(hi - lo + 1) |-> frame[lo + j - 1].bb_width] \o << >>,
              LAMBDA x : ~IsNaN(x))

\* the mean of the widths ws, added up one after the other: NaN of none
MeanWidth(ws) ==
    IF Len(ws) = 0 THEN NaN ELSE FDiv(SumFrom(ws, 1, FInt(0)), FInt(Len(ws)))

\* last / mean, 1 when the mean is not positive
RatioOf(last, mean) == IF FGt(mean, FInt(0)) THEN FDiv(last, mean) ELSE FInt(1)

\* the label the claim gives a ratio
LabelOf(ratio) ==
    IF FGe(ratio, Dec1_5) THEN "High volatility (bands expanding)"
    ELSE IF FGe(ratio, Dec1_2) THEN "Above average volatility"
    ELSE IF FGe(ratio, Dec0_8) THEN "Normal volatility"
    ELSE IF FGe(ratio, Dec0_6) THEN "Below average volatility"
    ELSE "Low volatility (potential squeeze)"

\* C9: for a non-empty series the volatility label comes from
\* ratio = (last width) / (mean width of the last min(20, n) points), ratio 1
\* when that mean is not positive; the label is the first of >= 1.5 high,
\* >= 1.2 above average, >= 0.8 normal, >= 0.6 below average, otherwise low.
\* An empty series gives the empty result.  (The mean is pandas': undefined
\* widths are left out of it, and a NaN ratio passes no threshold.)
C9_VolatilityLabel ==
    pc = "analyzed" =>
        IF Len(df) = 0 THEN DOMAIN analysis = {}
        ELSE /\ DOMAIN analysis # {}
             /\ analysis.volatility_state =
                   LabelOf(RatioOf(df[Len(df)].bb_width,
                                   MeanWidth(DefinedWidths(df,
                                       Len(df) - Min(TailLen, Len(df)) + 1, Len(df)))))

\* a series longer than the tail, whose label the rows before the tail would change
C9_Witness ==
    /\ pc = "analyzed"
    /\ Len(df) > TailLen
    /\ FEq(df[1].bb_width, FInt(8))
    /\ analysis.volatility_state = "Below average volatility"

\* ------------------------------------------------------------ properties: persistence
\* a stored row without the columns the table fills in itself
DataOf(r) == [c \in DOMAIN r \ {"id", "created_at"} |-> r[c]]

\* the call that has returned saved the frame the call before it saved, for
\* the same symbol and timeframe
SavedTwice ==
    /\ pc = "returned" /\ Saved
    /\ prev.called /\ prev.ok
    /\ prev.sym = sym /\ prev.tf = tf /\ prev.df = df

\* C7 as claimed: after the second of two identical saves the table is what
\* the first left, identical in every column.
C7_SameTableInEveryColumn == SavedTwice => table = prev.table

\* C7 amended: after the second of two identical saves the table holds one row
\* per (symbol, timeframe, timestamp) key, as many rows as the first save left,
\* with the values the first save left in the key and data columns (id and
\* created_at are given anew).
C7_SameTableInDataColumns ==
    SavedTwice =>
        /\ {DataOf(r) : r \in table} = {DataOf(r) : r \in prev.table}
        /\ Cardinality(table) = Cardinality(prev.table)
        /\ \A r1 \in table, r2 \in table : SameKey(r1, r2) => r1 = r2

\* the same two-row frame saved twice: the rows are rewritten under new ids,
\* a width of -0.0 among them, held as 0.0
C7_Witness ==
    /\ SavedTwice
    /\ Len(df) >= 2
    /\ table # prev.table
    /\ \A r \in table : r.id > Len(df)
    /\ \E i \in 1..Len(df) :
          /\ IsZero(df[i].bb_width) /\ signbit(df[i].bb_width)
          /\ \E r \in table : r.timestamp = df[i].timestamp /\ r.bb_width = Zero(1)

\* C10: when a call of save_bollinger_bands_data has returned, either it
\* failed and the table and its id sequence are what they were before the
\* call, or it did not fail and every row of the frame is in the table.
C10_AllOrNothing ==
    pc = "returned" =>
        IF Saved
        THEN \A i \in 1..Len(df) :
                \E r \in table : DataOf(r) = Params(sym, tf, df[i])
        ELSE table = prev.table /\ seqno = prev.seqno

\* a call fails on its second row, with rows of an earlier call in the table
C10_Witness ==
    /\ pc = "returned" /\ ~Saved
    /\ inserted >= 1 /\ inserted < Len(df)
    /\ prev.table # {}
    /\ table = prev.table

\* ------------------------------------------------------------ properties: batch
\* C8: when main has ended, every pair of the loop was taken up: a failure
\* while one pair is fetched, computed or saved keeps no later pair from being
\* processed.
C8_EveryPairProcessed ==
    pc \in {"done", "aborted"} =>
        \A i \in 1..Len(Pairs) :
            \E j \in 1..Len(log) :
                /\ log[j].level = "CALCULATING"
                /\ log[j].sym = Pairs[i][1]
                /\ log[j].tf = Pairs[i][2]
====
